---------------------------- MODULE Spec2Model ----------------------------
(***************************************************************************)
(* A model of libcask: the Base64-URL codec, the alignment helpers, the    *)
(* validators and Cask_GenerateKey, with the platform's random source and  *)
(* clock as nondeterministic inputs.                                       *)
(*                                                                         *)
(* A C string is a sequence of character codes (ASCII), a byte buffer a    *)
(* sequence of numbers in 0..255.  A `const char*' argument is a record    *)
(* [null, chars].                                                          *)
(***************************************************************************)
EXTENDS Integers, Sequences, FiniteSets, TLC

(***************************************************************************)
(* Bounds of the model.                                                    *)
(***************************************************************************)
\* byte buffers given to the encoder hold up to 3 * MaxGroups bytes
MaxGroups == 2
\* strings given directly to the decoder hold up to MaxSrcChars characters
MaxSrcChars == 4
\* the clock reads years up to YearMargin before or after the ends of the
\* accepted range
YearMargin == 1
\* number of threads calling Cask_GenerateKey concurrently
NumThreads == 2

(***************************************************************************)
(* Integer helpers: C semantics.                                           *)
(***************************************************************************)
\* C's integer division truncates toward zero
CDiv(a, b) ==
    IF a >= 0 THEN a \div b ELSE -((-a) \div b)

\* C's remainder has the sign of the dividend
CMod(a, b) == a - CDiv(a, b) * b

Pow2(n) == 2 ^ n

\* A 32-bit word (int, uint32_t) is the pair of its 16-bit halves << hi, lo >>,
\* so that shifts wrap as the machine's do.
Word32(hi, lo) == << hi, lo >>

\* w << n, for 0 < n <= 16, modulo 2^32
Shl32(w, n) ==
    Word32(((w[1] * Pow2(n)) % 65536) + (w[2] \div Pow2(16 - n)),
           (w[2] * Pow2(n)) % 65536)

\* w + c (or w | c) for a c below 2^16 that fits the zero low bits of w
AddLow32(w, c) == Word32(w[1], w[2] + c)

\* (w >> sh) & (2^n - 1), for sh + n <= 24
Bits32(w, sh, n) == ((((w[1] % 256) * 65536) + w[2]) \div Pow2(sh)) % Pow2(n)

\* A size_t near 0 or near SIZE_MAX is the integer congruent to it: -1 is
\* SIZE_MAX.  SizeLess is the unsigned order.
SizeLess(a, b) == IF (a >= 0) = (b >= 0) THEN a < b ELSE b < 0

Str(s) == [null |-> FALSE, chars |-> s]

RECURSIVE Repeat(_, _)
\* the string of n characters c
Repeat(c, n) == IF n = 0 THEN << >> ELSE Append(Repeat(c, n - 1), c)

NullPtr == [null |-> TRUE, chars |-> << >>]

\* std::strlen
StrLen(p) == Len(p.chars)

(***************************************************************************)
(* helpers.h / helpers.cpp                                                 *)
(***************************************************************************)
\* "ABCDEFGHIJKLMNOPQRSTUVWXYZabcdefghijklmnopqrstuvwxyz0123456789-_"
Base64UrlChars ==
    [i \in 1..64 |->
        IF i <= 26 THEN 64 + i
        ELSE IF i <= 52 THEN 96 + (i - 26)
        ELSE IF i <= 62 THEN 47 + (i - 52)
        ELSE IF i = 63 THEN 45 ELSE 95]

FixedKeyComponentSizeInBytes == 3 + 3 + 3 + 3

RoundUpToMultipleOf(value, multiple) ==
    CDiv(value + multiple - 1, multiple) * multiple

RoundUpTo3ByteAlignment(bytes) == RoundUpToMultipleOf(bytes, 3)

RoundUpTo4CharAlignment(chars) == RoundUpToMultipleOf(chars, 4)

Is4CharAligned(charLength) == CMod(charLength, 4) = 0

Is3ByteAligned(byteLength) == CMod(byteLength, 3) = 0

\* the result, or "invalid_argument" when the function throws
GetKeyLengthInBytes(secretEntropyInBytes, providerDataLengthInBytes) ==
    IF ~Is3ByteAligned(secretEntropyInBytes) THEN [threw |-> TRUE, value |-> 0]
    ELSE IF ~Is3ByteAligned(providerDataLengthInBytes) THEN [threw |-> TRUE, value |-> 0]
    ELSE [threw |-> FALSE,
          value |-> secretEntropyInBytes + providerDataLengthInBytes
                    + FixedKeyComponentSizeInBytes]

Base64CharsToBytes(chars) == CDiv(RoundUpTo4CharAlignment(chars), 4) * 3

BytesToBase64Chars(bytes) == CDiv(RoundUpTo3ByteAlignment(bytes), 3) * 4

IsValidBase64UrlCharacter(c) ==
    \/ (c >= 65 /\ c <= 90)
    \/ (c >= 97 /\ c <= 122)
    \/ (c >= 48 /\ c <= 57)
    \/ c = 45
    \/ c = 95

IsValidForBase64Url(value) ==
    IF value.null THEN FALSE
    ELSE \A i \in 1..Len(value.chars) : IsValidBase64UrlCharacter(value.chars[i])

(***************************************************************************)
(* cask_dependencies.cpp                                                   *)
(***************************************************************************)
\* static const char base64_chars[] of cask_dependencies.cpp
EncodeChars == Base64UrlChars

\* std::replace(first, last, old, new)
Replace(s, old, new) == [i \in 1..Len(s) |-> IF s[i] = old THEN new ELSE s[i]]

\* the erase(remove(...)) idiom: s without the occurrences of c
RECURSIVE Remove(_, _)
Remove(s, c) ==
    IF s = << >> THEN << >>
    ELSE IF Head(s) = c THEN Remove(Tail(s), c)
    ELSE << Head(s) >> \o Remove(Tail(s), c)

\* the inner while loop of Base64UrlEncode: val is the 32-bit pattern of `int val'
RECURSIVE EncodeEmit(_, _, _)
EncodeEmit(val, valb, encoded) ==
    IF valb >= 0
    THEN EncodeEmit(val, valb - 6,
                    Append(encoded, EncodeChars[Bits32(val, valb, 6) + 1]))
    ELSE [valb |-> valb, encoded |-> encoded]

\* the for loop of Base64UrlEncode over bytes[i..]
RECURSIVE EncodeLoop(_, _, _, _, _)
EncodeLoop(bytes, i, val, valb, encoded) ==
    IF i > Len(bytes) THEN [val |-> val, valb |-> valb, encoded |-> encoded]
    ELSE LET v == AddLow32(Shl32(val, 8), bytes[i])
             e == EncodeEmit(v, valb + 8, encoded)
         IN  EncodeLoop(bytes, i + 1, v, e.valb, e.encoded)

\* pad to a multiple of 4 with '='
RECURSIVE PadTo4(_)
PadTo4(s) == IF Len(s) % 4 # 0 THEN PadTo4(Append(s, 61)) ELSE s

Base64UrlEncode(bytes) ==
    LET l  == EncodeLoop(bytes, 1, Word32(0, 0), -6, << >>)
        e1 == IF l.valb > -6
              THEN Append(l.encoded,
                          EncodeChars[Bits32(Shl32(l.val, 8), l.valb + 8, 6) + 1])
              ELSE l.encoded
        e2 == PadTo4(e1)
        e3 == Replace(e2, 43, 45)
        e4 == Replace(e3, 47, 95)
    IN  Remove(e4, 61)

\* the stub
ComputeCrc32(bytes) == 0

(***************************************************************************)
(* base64url.h                                                             *)
(***************************************************************************)
\* base64_chars of DecodeBase64: the standard alphabet, ending in "+/"
DecodeChars ==
    [i \in 1..64 |-> IF i = 63 THEN 43 ELSE IF i = 64 THEN 47 ELSE Base64UrlChars[i]]

\* std::string::find(c): the 0-based position, or -1 for npos
Find(chars, c) ==
    IF \E i \in 1..Len(chars) : chars[i] = c
    THEN (CHOOSE i \in 1..Len(chars) : chars[i] = c) - 1
    ELSE -1

\* input[k] for a 0-based k of DecodeBase64; an index outside the string
\* reads whatever the memory holds there: oob
CharAt(input, k, oob) ==
    IF k >= 0 /\ k < Len(input) THEN input[k + 1] ELSE oob

\* the for loop of DecodeBase64 over input[i..]; written is destination[0..j)
RECURSIVE DecodeLoop(_, _, _, _, _)
DecodeLoop(input, i, buffer, bits_collected, written) ==
    IF i > Len(input) \/ input[i] = 61
    THEN [threw |-> "", ret |-> Len(written), written |-> written]
    ELSE LET pos == Find(DecodeChars, input[i])
         IN  IF pos = -1
             THEN [threw |-> "invalid_argument", ret |-> 0, written |-> written]
             ELSE LET b    == AddLow32(Shl32(buffer, 6), pos)
                      bits == bits_collected + 6
                  IN  IF bits >= 8
                      THEN DecodeLoop(input, i + 1, b, bits - 8,
                                      Append(written, Bits32(b, bits - 8, 8)))
                      ELSE DecodeLoop(input, i + 1, b, bits, written)

\* destSize is destination.size(); oob1, oob2 are what the reads of
\* input[in_len - 1] and input[in_len - 2] give when they fall outside input
DecodeBase64(input, destSize, oob1, oob2) ==
    LET in_len == Len(input)
        o0 == (in_len \div 4) * 3
        o1 == IF CharAt(input, in_len - 1, oob1) = 61 THEN o0 - 1 ELSE o0
        out_len == IF CharAt(input, in_len - 2, oob2) = 61 THEN o1 - 1 ELSE o1
    IN  IF in_len % 4 # 0
        THEN [threw |-> "invalid_argument", ret |-> 0, written |-> << >>]
        ELSE IF SizeLess(destSize, out_len)
        THEN [threw |-> "invalid_argument", ret |-> 0, written |-> << >>]
        ELSE DecodeLoop(input, 1, Word32(0, 0), 0, << >>)

\* DecodeBase64 indexes input before its first character
DecodeReadsOutOfRange(source) == Len(PadTo4(source)) < 2

DecodeFromChars(source, destSize, oob1, oob2) ==
    LET b1 == Replace(source, 45, 43)
        b2 == Replace(b1, 95, 47)
    IN  DecodeBase64(PadTo4(b2), destSize, oob1, oob2)

(***************************************************************************)
(* State.                                                                  *)
(*                                                                         *)
(* The codec on its own: cin is the input of one use of the codec, cout    *)
(* what it produced, cpc the position of that use.                         *)
(*                                                                         *)
(* Cask_GenerateKey, per calling thread t: pc[t] is the position of the    *)
(* call, args[t] its arguments, env[t] what the platform gives this call   *)
(* (the random bytes or their failure, the system time read by GetUtcNow), *)
(* keyBytes[t], now[t], year[t], month[t] the locals of those names,       *)
(* asserts[t] the assertions of the call that evaluated to false,          *)
(* status[t] and ret[t] how the call ended and what it returned, and       *)
(* outWrites[t] the bytes the call stored at output[0], output[1], ...     *)
(* (the caller's buffer holds args[t].outputSizeInBytes of them).          *)
(* tmbuf is the struct tm std::gmtime returns a pointer to, and ndebug     *)
(* whether the build defines NDEBUG.                                       *)
(***************************************************************************)
VARIABLES cin, cout, cpc,
          pc, args, env, keyBytes, now, year, month, asserts, status, ret,
          outWrites, tmbuf, ndebug

codecVars == << cin, cout, cpc >>

keyVars == << pc, args, env, keyBytes, now, year, month, asserts, status, ret,
              outWrites, tmbuf, ndebug >>

vars == << cin, cout, cpc,
           pc, args, env, keyBytes, now, year, month, asserts, status, ret,
           outWrites, tmbuf, ndebug >>

Threads == 1..NumThreads

(***************************************************************************)
(* The codec's inputs.                                                     *)
(***************************************************************************)
RECURSIVE SeqsUpTo(_, _)
\* the sequences over S of length at most n
SeqsUpTo(S, n) ==
    IF n = 0 THEN { << >> }
    ELSE LET shorter == SeqsUpTo(S, n - 1)
         IN  shorter \cup { Append(q, x) : q \in { r \in shorter : Len(r) = n - 1 }, x \in S }

ByteSamples == { 0, 165, 255 }

\* 'A', '9', '-', '_', '+', '/', '=', '!'
CharSamples == { 65, 57, 45, 95, 43, 47, 61, 33 }

ByteBuffers == SeqsUpTo(ByteSamples, 3 * MaxGroups)

CharInputs == SeqsUpTo(CharSamples, MaxSrcChars)

\* what a read outside a string may give: NUL, '=', 'A'
OobChars == { 0, 61, 65 }

\* sizes of the destination span handed to the decoder
DestSizes == { 0, 1, 3 * MaxGroups + 3 }

NoResult == [threw |-> "", ret |-> -1, written |-> << >>]

\* the values of args[t] and env[t] of a thread that is in no call
NoArguments ==
    [allocatorCode |-> NullPtr, providerSignature |-> NullPtr, providerData |-> NullPtr,
     secretEntropyInBytes |-> 0, outputSizeInBytes |-> 0]

NoRandom == [ok |-> FALSE, pattern |-> "none"]

NoSystemTime ==
    [wYear |-> 0, wMonth |-> 0, wDay |-> 0, wHour |-> 0, wMinute |-> 0, wSecond |-> 0]

NoPlatform == [rng |-> NoRandom, systemTime |-> NoSystemTime]

IdleKeyState ==
    /\ pc = [t \in Threads |-> "idle"]
    /\ args = [t \in Threads |-> NoArguments]
    /\ env = [t \in Threads |-> NoPlatform]
    /\ keyBytes = [t \in Threads |-> << >>]
    /\ now = [t \in Threads |-> << 0, 0 >>]
    /\ year = [t \in Threads |-> 0]
    /\ month = [t \in Threads |-> 0]
    /\ asserts = [t \in Threads |-> { }]
    /\ status = [t \in Threads |-> "none"]
    /\ ret = [t \in Threads |-> 0]
    /\ outWrites = [t \in Threads |-> << >>]
    /\ tmbuf = [tm_year |-> 70, tm_mon |-> 0]

IdleCodecState ==
    /\ cin = [kind |-> "none", bytes |-> << >>, chars |-> << >>, destSize |-> 0]
    /\ cout = [encoded |-> << >>, oob |-> FALSE, decoded |-> NoResult]
    /\ cpc = "unused"

InitCodec ==
    /\ \/ \E b \in ByteBuffers :
            cin = [kind |-> "bytes", bytes |-> b, chars |-> << >>, destSize |-> 0]
       \/ \E c \in CharInputs, d \in DestSizes :
            cin = [kind |-> "chars", bytes |-> << >>, chars |-> c, destSize |-> d]
    /\ cout = [encoded |-> << >>, oob |-> FALSE, decoded |-> NoResult]
    /\ cpc = "start"
    /\ IdleKeyState
    /\ ndebug = FALSE

\* Base64UrlEncode(cin.bytes)
Encode ==
    /\ cpc = "start"
    /\ cin.kind = "bytes"
    /\ cout' = [cout EXCEPT !.encoded = Base64UrlEncode(cin.bytes)]
    /\ cpc' = "encoded"
    /\ UNCHANGED << cin, keyVars >>

\* Base64Url::DecodeFromChars(encoded, destination), destination of the
\* buffer's size
DecodeEncoded ==
    /\ cpc = "encoded"
    /\ \E oob1 \in OobChars, oob2 \in OobChars :
         cout' = [cout EXCEPT
                    !.oob = DecodeReadsOutOfRange(cout.encoded),
                    !.decoded = DecodeFromChars(cout.encoded, Len(cin.bytes), oob1, oob2)]
    /\ cpc' = "done"
    /\ UNCHANGED << cin, keyVars >>

\* Base64Url::DecodeFromChars(cin.chars, destination)
DecodeSource ==
    /\ cpc = "start"
    /\ cin.kind = "chars"
    /\ \E oob1 \in OobChars, oob2 \in OobChars :
         cout' = [cout EXCEPT
                    !.oob = DecodeReadsOutOfRange(cin.chars),
                    !.decoded = DecodeFromChars(cin.chars, cin.destSize, oob1, oob2)]
    /\ cpc' = "done"
    /\ UNCHANGED << cin, keyVars >>

NextCodec ==
    \/ Encode
    \/ DecodeEncoded
    \/ DecodeSource

SpecCodec == InitCodec /\ [][NextCodec]_vars

\* sanity: the sentinel 25 04 09 encodes to "JQQJ", "QUJD" decodes to 41 42 43
CodecExamples ==
    /\ Base64UrlEncode(<< 37, 4, 9 >>) = << 74, 81, 81, 74 >>
    /\ DecodeFromChars(<< 81, 85, 74, 68 >>, 3, 0, 0).written = << 65, 66, 67 >>
    /\ Base64UrlEncode(<< 255, 255, 255 >>) = << 95, 95, 95, 95 >>
    /\ Base64UrlEncode(<< 251 >>) = << 45, 119 >>
    /\ Base64UrlEncode(<< >>) = << >>

(***************************************************************************)
(* cask.cpp: constants and validators.  A validator is TRUE when it        *)
(* throws std::invalid_argument.                                           *)
(***************************************************************************)
MaxProviderDataLengthInBytes == RoundUpTo3ByteAlignment(24)

MaxProviderDataLengthInChars == BytesToBase64Chars(MaxProviderDataLengthInBytes)

MinSecretEntropyInBytes == RoundUpTo3ByteAlignment(16)

MaxSecretEntropyInBytes == RoundUpTo3ByteAlignment(64)

ValidateProviderSignature(providerSignature) ==
    IF providerSignature.null THEN TRUE
    ELSE IF StrLen(providerSignature) # 4 THEN TRUE
    ELSE ~IsValidForBase64Url(providerSignature)

ValidateAllocatorCode(allocatorCode) ==
    IF allocatorCode.null THEN TRUE
    ELSE IF StrLen(allocatorCode) # 2 THEN TRUE
    ELSE ~IsValidForBase64Url(allocatorCode)

ValidateProviderData(providerData) ==
    IF providerData.null THEN TRUE
    ELSE IF StrLen(providerData) > MaxProviderDataLengthInChars THEN TRUE
    ELSE IF ~Is4CharAligned(StrLen(providerData)) THEN TRUE
    ELSE ~IsValidForBase64Url(providerData)

ValidateSecretEntropy(secretEntropyInBytes) ==
    \/ secretEntropyInBytes < MinSecretEntropyInBytes
    \/ secretEntropyInBytes > MaxSecretEntropyInBytes

(***************************************************************************)
(* The platform: BCryptGenRandom, GetSystemTime, _mkgmtime, gmtime.        *)
(***************************************************************************)
\* the i-th byte (from 0) a random source gives
RandomByte(pattern, i) ==
    IF pattern = "ramp" THEN i % 256 ELSE 255

\* days from 1970-01-01 to the civil date y-m-d
DaysFromCivil(y, m, d) ==
    LET yy  == IF m <= 2 THEN y - 1 ELSE y
        era == yy \div 400
        yoe == yy - era * 400
        mp  == IF m > 2 THEN m - 3 ELSE m + 9
        doy == ((153 * mp + 2) \div 5) + d - 1
        doe == yoe * 365 + (yoe \div 4) - (yoe \div 100) + doy
    IN  era * 146097 + doe - 719468

\* the civil date of the day z days after 1970-01-01
CivilFromDays(z) ==
    LET zz  == z + 719468
        era == zz \div 146097
        doe == zz - era * 146097
        yoe == (doe - (doe \div 1460) + (doe \div 36524) - (doe \div 146096)) \div 365
        doy == doe - (365 * yoe + (yoe \div 4) - (yoe \div 100))
        mp  == (5 * doy + 2) \div 153
        d   == doy - ((153 * mp + 2) \div 5) + 1
        m   == IF mp < 10 THEN mp + 3 ELSE mp - 9
    IN  [year |-> IF m <= 2 THEN yoe + era * 400 + 1 ELSE yoe + era * 400,
         month |-> m, day |-> d]

\* _mkgmtime: a time_t is << days since the epoch, second of that day >>
MkGmTime(timeInfo) ==
    << DaysFromCivil(timeInfo.tm_year + 1900, timeInfo.tm_mon + 1, timeInfo.tm_mday),
       timeInfo.tm_hour * 3600 + timeInfo.tm_min * 60 + timeInfo.tm_sec >>

\* the fields std::gmtime stores that the caller reads
GmTimeFields(time) ==
    LET c == CivilFromDays(time[1])
    IN  [tm_year |-> c.year - 1900, tm_mon |-> c.month - 1]

GetUtcNow(systemTime) ==
    MkGmTime([tm_year |-> systemTime.wYear - 1900,
              tm_mon  |-> systemTime.wMonth - 1,
              tm_mday |-> systemTime.wDay,
              tm_hour |-> systemTime.wHour,
              tm_min  |-> systemTime.wMinute,
              tm_sec  |-> systemTime.wSecond])

(***************************************************************************)
(* cask.cpp: Cask_IsCask, Cask_GenerateKey.                                *)
(***************************************************************************)
\* the stub
Cask_IsCask(keyOrHash) == FALSE

Zeros(n) == [i \in 1..n |-> 0]

\* buf with bytes stored from the 0-based offset off
WriteAt(buf, off, bytes) ==
    [i \in 1..Len(buf) |->
        IF i > off /\ i <= off + Len(bytes) THEN bytes[i - off] ELSE buf[i]]

\* ComputeChecksum(keyBytes, destination): the low three bytes, little
\* endian, of the CRC of the bytes before destination
ComputeChecksum(key, off) ==
    LET crc == ComputeCrc32(SubSeq(key, 1, off))
    IN  WriteAt(key, off,
                << crc % 256, (crc \div 256) % 256, (crc \div 65536) % 256 >>)

\* a failed assertion aborts the process, unless the build defines NDEBUG,
\* where assert expands to nothing
AssertFails(ndbg, cond) == ~ndbg /\ ~cond

Ended(st, kb, failed) ==
    [status |-> st, keyBytes |-> kb, asserts |-> failed, now |-> << 0, 0 >>]

\* lines 60-65: one of the four validators throws
ArgumentsRejected(a) ==
    \/ ValidateProviderSignature(a.providerSignature)
    \/ ValidateAllocatorCode(a.allocatorCode)
    \/ ValidateProviderData(a.providerData)
    \/ ValidateSecretEntropy(RoundUpTo3ByteAlignment(a.secretEntropyInBytes))

\* Cask_GenerateKey from its entry to the return of GetUtcNow.  a: the
\* arguments; rng, systemTime: what the platform gives; oob1, oob2: what
\* reads outside the provider data string give.
GenerateKeyBegin(a, rng, systemTime, oob1, oob2, ndbg) ==
    LET secretEntropyInBytes == RoundUpTo3ByteAlignment(a.secretEntropyInBytes)
    IN
    IF ArgumentsRejected(a)
    THEN Ended("invalid_argument", << >>, { })
    ELSE
    LET providerDataLengthInBytes == Base64CharsToBytes(StrLen(a.providerData))
        keyLength == GetKeyLengthInBytes(secretEntropyInBytes, providerDataLengthInBytes)
        keyLengthInBytes == keyLength.value
    IN
    IF keyLength.threw THEN Ended("invalid_argument", << >>, { })
    ELSE IF AssertFails(ndbg, keyLengthInBytes <= 64)
    THEN Ended("aborted", << >>, { "keyLengthInBytes <= 64" })
    ELSE
    LET kb0 == Zeros(keyLengthInBytes)
    IN
    IF secretEntropyInBytes = 0 THEN Ended("invalid_argument", kb0, { })
    ELSE IF ~rng.ok THEN Ended("runtime_error", kb0, { })
    ELSE
    LET kb1 == WriteAt(kb0, 0,
                       [i \in 1..secretEntropyInBytes |-> RandomByte(rng.pattern, i - 1)])
        dec == DecodeFromChars(a.providerData.chars,
                               keyLengthInBytes - secretEntropyInBytes, oob1, oob2)
        kb2 == WriteAt(kb1, secretEntropyInBytes, dec.written)
    IN
    IF dec.threw # "" THEN Ended(dec.threw, kb2, { })
    ELSE IF AssertFails(ndbg, dec.ret = providerDataLengthInBytes)
    THEN Ended("aborted", kb2, { "bytesWritten == providerDataLengthInBytes" })
    ELSE
    [status |-> "running",
     keyBytes |-> WriteAt(kb2, secretEntropyInBytes + providerDataLengthInBytes,
                          << 37, 4, 9 >>),
     asserts |-> { },
     now |-> GetUtcNow(systemTime)]

Finished(st, kb, failed, r, copied) ==
    [status |-> st, keyBytes |-> kb, asserts |-> failed, ret |-> r, outWrites |-> copied]

\* lines 96-115 of Cask_GenerateKey: from the allocator and timestamp field
\* to the return
GenerateKeyTail(a, kb, yr, mo, ndbg) ==
    LET keyLengthInBytes == Len(kb)
        off == keyLengthInBytes - 9
        allocatorAndTimestamp ==
            << a.allocatorCode.chars[1], a.allocatorCode.chars[2],
               Base64UrlChars[yr - 2024 + 1], Base64UrlChars[mo - 1 + 1] >>
        d1  == DecodeFromChars(allocatorAndTimestamp, keyLengthInBytes - off, 0, 0)
        kb1 == WriteAt(kb, off, d1.written)
    IN
    IF d1.threw # "" THEN Finished(d1.threw, kb1, { }, 0, << >>)
    ELSE IF AssertFails(ndbg, d1.ret = 3)
    THEN Finished("aborted", kb1, { "bytesWritten == 3 (allocator)" }, 0, << >>)
    ELSE
    LET d2  == DecodeFromChars(a.providerSignature.chars,
                               keyLengthInBytes - (off + 3), 0, 0)
        kb2 == WriteAt(kb1, off + 3, d2.written)
    IN
    IF d2.threw # "" THEN Finished(d2.threw, kb2, { }, 0, << >>)
    ELSE IF AssertFails(ndbg, d2.ret = 3)
    THEN Finished("aborted", kb2, { "bytesWritten == 3 (signature)" }, 0, << >>)
    ELSE
    LET kb3 == ComputeChecksum(kb2, off + 6)
    IN  Finished("ok", kb3, { }, keyLengthInBytes, kb3)

\* as GenerateKeyEnd, with the std::copy to the output placed before the
\* year check
GenerateKeyCopyFirst(a, kb, yr, mo, ndbg) ==
    IF yr < 2024 \/ yr > 2087
    THEN Finished("invalid_argument", kb, { }, 0, kb)
    ELSE GenerateKeyTail(a, kb, yr, mo, ndbg)

\* lines 92-115 of Cask_GenerateKey: from the year check to the return
GenerateKeyEnd(a, kb, yr, mo, ndbg) ==
    IF yr < 2024 \/ yr > 2087
    THEN Finished("invalid_argument", kb, { }, 0, << >>)
    ELSE GenerateKeyTail(a, kb, yr, mo, ndbg)

(***************************************************************************)
(* The callers' inputs.                                                    *)
(***************************************************************************)
\* "AB", "-_", "A", "A+", nullptr
Allocators ==
    { Str(<< 65, 66 >>), Str(<< 45, 95 >>), Str(<< 65 >>), Str(<< 65, 43 >>), NullPtr }

\* "ACME", "ACM", "AC=E", nullptr
Signatures ==
    { Str(<< 65, 67, 77, 69 >>), Str(<< 65, 67, 77 >>), Str(<< 65, 67, 61, 69 >>), NullPtr }

\* "", "QUJD", 32 times '_', "AB", "QU+D", 36 times 'A', nullptr
ProviderDatas ==
    { Str(<< >>), Str(<< 81, 85, 74, 68 >>), Str(Repeat(95, 32)),
      Str(<< 65, 66 >>), Str(<< 81, 85, 43, 68 >>), Str(Repeat(65, 36)), NullPtr }

Entropies == { 0, 16, 17, 32, 64, 67 }

OutputSizes == { 0, 40, 128 }

AllArguments ==
    [allocatorCode : Allocators, providerSignature : Signatures,
     providerData : ProviderDatas, secretEntropyInBytes : Entropies,
     outputSizeInBytes : OutputSizes]

\* the arguments the validators accept, and those that differ from
\* "AB", "ACME", "QUJD", 32 in what one validator rejects
Arguments ==
    { a \in AllArguments :
        \/ ~ArgumentsRejected(a)
        \/ Cardinality({ f \in { "allocatorCode", "providerSignature", "providerData",
                                 "secretEntropyInBytes" } :
                           a[f] # [allocatorCode |-> Str(<< 65, 66 >>),
                                   providerSignature |-> Str(<< 65, 67, 77, 69 >>),
                                   providerData |-> Str(<< 81, 85, 74, 68 >>),
                                   secretEntropyInBytes |-> 32][f] }) = 1 }

\* the arguments of the calls that run concurrently: "AB", "ACME", "QUJD", 17
ConcurrentArguments ==
    [allocatorCode : { Str(<< 65, 66 >>) }, providerSignature : { Str(<< 65, 67, 77, 69 >>) },
     providerData : { Str(<< 81, 85, 74, 68 >>), Str(<< 65, 66 >>) },
     secretEntropyInBytes : { 17 }, outputSizeInBytes : { 128 }]

RandomSources ==
    { [ok |-> FALSE, pattern |-> "fails"], [ok |-> TRUE, pattern |-> "ramp"],
      [ok |-> TRUE, pattern |-> "ones"] }

ClockYears ==
    ((2024 - YearMargin)..(2024 + YearMargin)) \cup ((2087 - YearMargin)..(2087 + YearMargin))

\* the first second of January and the last second of December
SystemTimes ==
    { [wYear |-> y, wMonth |-> 1, wDay |-> 1, wHour |-> 0, wMinute |-> 0, wSecond |-> 0] :
        y \in ClockYears }
    \cup
    { [wYear |-> y, wMonth |-> 12, wDay |-> 31, wHour |-> 23, wMinute |-> 59, wSecond |-> 59] :
        y \in ClockYears }

\* the clock readings of the calls that run concurrently: the first second
\* of 2024, the last second of 2087 and the second after it
ConcurrentSystemTimes ==
    { [wYear |-> 2024, wMonth |-> 1, wDay |-> 1, wHour |-> 0, wMinute |-> 0, wSecond |-> 0],
      [wYear |-> 2087, wMonth |-> 12, wDay |-> 31, wHour |-> 23, wMinute |-> 59, wSecond |-> 59],
      [wYear |-> 2088, wMonth |-> 1, wDay |-> 1, wHour |-> 0, wMinute |-> 0, wSecond |-> 0] }

(***************************************************************************)
(* The steps of a call of Cask_GenerateKey by thread t.                    *)
(***************************************************************************)
\* an abort ends the process
Running == \A t \in Threads : status[t] # "aborted"

\* lines 60-87: from the entry to now = GetUtcNow(), for arguments among
\* inputs and a clock reading among times.  The random source is
\* consulted by a call whose arguments pass, the clock by a call that got
\* its random bytes, and only an empty provider data string is read outside
\* its characters.
Call(t, inputs, times) ==
    /\ Running
    /\ pc[t] = "idle"
    /\ \E a \in inputs :
         \E rng \in IF ArgumentsRejected(a) THEN { NoRandom } ELSE RandomSources :
         \E systemTime \in IF rng.ok THEN times ELSE { NoSystemTime } :
         \E oob1 \in IF rng.ok /\ StrLen(a.providerData) = 0 THEN OobChars ELSE { 0 } :
         \E oob2 \in IF rng.ok /\ StrLen(a.providerData) = 0 THEN OobChars ELSE { 0 } :
         LET b == GenerateKeyBegin(a, rng, systemTime, oob1, oob2, ndebug)
         IN  /\ args' = [args EXCEPT ![t] = a]
             /\ env' = [env EXCEPT ![t] = [rng |-> rng, systemTime |-> systemTime]]
             /\ keyBytes' = [keyBytes EXCEPT ![t] = b.keyBytes]
             /\ asserts' = [asserts EXCEPT ![t] = b.asserts]
             /\ now' = [now EXCEPT ![t] = b.now]
             /\ status' = [status EXCEPT ![t] = b.status]
             /\ pc' = [pc EXCEPT ![t] = IF b.status = "running" THEN "gmtime" ELSE "returned"]
    /\ UNCHANGED << year, month, ret, outWrites, tmbuf, ndebug, codecVars >>

\* line 88: now_tm = std::gmtime(&now) fills the structure it returns
GmTime(t) ==
    /\ Running
    /\ pc[t] = "gmtime"
    /\ tmbuf' = GmTimeFields(now[t])
    /\ pc' = [pc EXCEPT ![t] = "readYear"]
    /\ UNCHANGED << args, env, keyBytes, now, year, month, asserts, status, ret,
                    outWrites, ndebug, codecVars >>

\* line 89: year = now_tm->tm_year + 1900
ReadYear(t) ==
    /\ Running
    /\ pc[t] = "readYear"
    /\ year' = [year EXCEPT ![t] = tmbuf.tm_year + 1900]
    /\ pc' = [pc EXCEPT ![t] = "readMonth"]
    /\ UNCHANGED << args, env, keyBytes, now, month, asserts, status, ret,
                    outWrites, tmbuf, ndebug, codecVars >>

\* line 90: month = now_tm->tm_mon + 1
ReadMonth(t) ==
    /\ Running
    /\ pc[t] = "readMonth"
    /\ month' = [month EXCEPT ![t] = tmbuf.tm_mon + 1]
    /\ pc' = [pc EXCEPT ![t] = "compose"]
    /\ UNCHANGED << args, env, keyBytes, now, year, asserts, status, ret,
                    outWrites, tmbuf, ndebug, codecVars >>

\* lines 92-115: from the year check to the return
Compose(t) ==
    /\ Running
    /\ pc[t] = "compose"
    /\ LET e == GenerateKeyEnd(args[t], keyBytes[t], year[t], month[t], ndebug)
       IN  /\ keyBytes' = [keyBytes EXCEPT ![t] = e.keyBytes]
           /\ asserts' = [asserts EXCEPT ![t] = e.asserts]
           /\ status' = [status EXCEPT ![t] = e.status]
           /\ ret' = [ret EXCEPT ![t] = e.ret]
           /\ outWrites' = [outWrites EXCEPT ![t] = e.outWrites]
    /\ pc' = [pc EXCEPT ![t] = "returned"]
    /\ UNCHANGED << args, env, now, year, month, tmbuf, ndebug, codecVars >>

\* the caller is done with the result; the thread may call again
Return(t) ==
    /\ Running
    /\ pc[t] = "returned"
    /\ pc' = [pc EXCEPT ![t] = "idle"]
    /\ args' = [args EXCEPT ![t] = NoArguments]
    /\ env' = [env EXCEPT ![t] = NoPlatform]
    /\ keyBytes' = [keyBytes EXCEPT ![t] = << >>]
    /\ now' = [now EXCEPT ![t] = << 0, 0 >>]
    /\ year' = [year EXCEPT ![t] = 0]
    /\ month' = [month EXCEPT ![t] = 0]
    /\ asserts' = [asserts EXCEPT ![t] = { }]
    /\ status' = [status EXCEPT ![t] = "none"]
    /\ ret' = [ret EXCEPT ![t] = 0]
    /\ outWrites' = [outWrites EXCEPT ![t] = << >>]
    /\ UNCHANGED << tmbuf, ndebug, codecVars >>

Init ==
    /\ IdleCodecState
    /\ IdleKeyState
    /\ ndebug \in BOOLEAN

\* one call in a fresh process, any arguments
Next ==
    \/ Call(1, Arguments, SystemTimes)
    \/ GmTime(1)
    \/ ReadYear(1)
    \/ ReadMonth(1)
    \/ Compose(1)

Spec == Init /\ [][Next]_vars

\* NumThreads callers at once, each calling again and again
NextConcurrent ==
    \/ \E t \in Threads : Call(t, ConcurrentArguments, ConcurrentSystemTimes)
    \/ \E t \in Threads : GmTime(t)
    \/ \E t \in Threads : ReadYear(t)
    \/ \E t \in Threads : ReadMonth(t)
    \/ \E t \in Threads : Compose(t)
    \/ \E t \in Threads : Return(t)

SpecConcurrent == Init /\ [][NextConcurrent]_vars

(***************************************************************************)
(* The CRC-32 of IEEE 802.3 (reflected polynomial EDB88320, initial value  *)
(* FFFFFFFF, final XOR FFFFFFFF), on 32-bit words as pairs of halves.      *)
(***************************************************************************)
RECURSIVE XorBits(_, _, _)
\* the exclusive or of the low n bits of x and y
XorBits(x, y, n) ==
    IF n = 0 THEN 0
    ELSE ((x + y) % 2) + 2 * XorBits(x \div 2, y \div 2, n - 1)

Xor32(v, w) == << XorBits(v[1], w[1], 16), XorBits(v[2], w[2], 16) >>

\* one step: shift right by one, and XOR the polynomial in when a 1 left
Crc32Bit(crc) ==
    LET shifted == << crc[1] \div 2, (crc[2] \div 2) + (crc[1] % 2) * 32768 >>
    IN  IF crc[2] % 2 = 1 THEN Xor32(shifted, << 60856, 33568 >>) ELSE shifted

\* the register after one more byte
Crc32Byte(crc, byte) ==
    Crc32Bit(Crc32Bit(Crc32Bit(Crc32Bit(
        Crc32Bit(Crc32Bit(Crc32Bit(Crc32Bit(Xor32(crc, << 0, byte >>)))))))))

RECURSIVE Crc32Range(_, _, _, _)
\* the register crc after bytes[lo..hi], halving the range (the test on left
\* has it evaluated before the second half starts)
Crc32Range(crc, bytes, lo, hi) ==
    IF lo > hi THEN crc
    ELSE IF lo = hi THEN Crc32Byte(crc, bytes[lo])
    ELSE LET mid  == (lo + hi) \div 2
             left == Crc32Range(crc, bytes, lo, mid)
         IN  IF left[1] >= 0 THEN Crc32Range(left, bytes, mid + 1, hi) ELSE << >>

Crc32Ieee(bytes) ==
    Xor32(Crc32Range(<< 65535, 65535 >>, bytes, 1, Len(bytes)), << 65535, 65535 >>)

\* the least significant three bytes of a word, the lowest first
LowThreeBytes(w) == << w[2] % 256, w[2] \div 256, w[1] % 256 >>

\* sanity: the CRC-32 of "123456789" is CBF43926
Crc32Example ==
    Crc32Ieee(<< 49, 50, 51, 52, 53, 54, 55, 56, 57 >>) = << 52212, 14630 >>

(***************************************************************************)
(* Properties.                                                             *)
(***************************************************************************)
Returned(t) == pc[t] = "returned"

Succeeded(t) == pc[t] = "returned" /\ status[t] = "ok"

\* S, P and the raw length of the key of a call that passed validation
SecretSize(a) == RoundUpTo3ByteAlignment(a.secretEntropyInBytes)

ProviderSize(a) == Base64CharsToBytes(StrLen(a.providerData))

RawLength(a) == SecretSize(a) + ProviderSize(a) + 12

\* the length of the textual key
TextLength(a) == (RawLength(a) * 4) \div 3

\* the bytes a string of the alphabet decodes to
Decoded(chars) == DecodeFromChars(chars, Len(chars), 0, 0).written

YearInRange(y) == y >= 2024 /\ y <= 2087

\* C1: IsCask applied to the output of a successful GenerateKey (valid
\* arguments, the RNG succeeding, the clock year in 2024..2087) is true.
C1_GeneratedKeyIsCask ==
    \A t \in Threads :
        Succeeded(t) /\ YearInRange(env[t].systemTime.wYear)
            => Cask_IsCask(outWrites[t])

\* C2: on success GenerateKey returns ((S + P + 12) * 4) / 3 and writes
\* exactly that many characters, all of the Base64-URL alphabet: the
\* encoding of the raw key bytes.
C2_ReturnsEncodedKey ==
    \A t \in Threads :
        Succeeded(t)
            => /\ ret[t] = TextLength(args[t])
               /\ Len(outWrites[t]) = TextLength(args[t])
               /\ \A i \in 1..Len(outWrites[t]) : IsValidBase64UrlCharacter(outWrites[t][i])
               /\ outWrites[t] = Base64UrlEncode(keyBytes[t])

\* C3: a call whose output buffer is smaller than the key fails with
\* BufferTooSmall, before any side effect, and writes nothing at or past
\* the end of the buffer.
C3_SmallBufferRejected ==
    \A t \in Threads :
        /\ Len(outWrites[t]) <= args[t].outputSizeInBytes
        /\ (/\ Returned(t)
            /\ ~ArgumentsRejected(args[t])
            /\ args[t].outputSizeInBytes < TextLength(args[t]))
               => (status[t] = "buffer_too_small" /\ keyBytes[t] = << >>)

\* C4: whenever GenerateKey fails (a validator rejects an argument, the RNG
\* fails, the clock year is out of range), and at every moment before it
\* succeeds, nothing has been written to the caller's output buffer.
C4_FailureLeavesOutputUntouched ==
    \A t \in Threads :
        status[t] # "ok" => outWrites[t] = << >>

\* a call that got its random bytes and its provider data in place and then
\* failed on the clock's year
C4_Witness ==
    \E t \in Threads :
        /\ Returned(t)
        /\ status[t] = "invalid_argument"
        /\ ~ArgumentsRejected(args[t])
        /\ env[t].rng.ok
        /\ year[t] = 2088
        /\ Len(keyBytes[t]) = RawLength(args[t])
        /\ outWrites[t] = << >>

\* C5: decoding fails on every input holding a character outside
\* A-Z a-z 0-9 - _ ('+', '/' and '=' included) and writes no decoded byte
\* for it.
C5_DecodeRejectsNonAlphabet ==
    (/\ cpc = "done"
     /\ cin.kind = "chars"
     /\ \E i \in 1..Len(cin.chars) : ~IsValidBase64UrlCharacter(cin.chars[i]))
        => (cout.decoded.threw = "invalid_argument" /\ cout.decoded.written = << >>)

\* C6: for every byte buffer b of a length that is a multiple of 3, the
\* empty one included, Base64UrlEncode(b) has 4 * len(b) / 3 characters and
\* decoding it writes exactly the bytes of b, with no index out of range.
C6_RoundTrip ==
    (cin.kind = "bytes" /\ Len(cin.bytes) % 3 = 0)
        => /\ cpc \in { "encoded", "done" } => Len(cout.encoded) = (4 * Len(cin.bytes)) \div 3
           /\ cpc = "done" => /\ ~cout.oob
                              /\ cout.decoded.threw = ""
                              /\ cout.decoded.ret = Len(cin.bytes)
                              /\ cout.decoded.written = cin.bytes

\* the round trip of the buffers that are not empty
RoundTripOfNonEmpty ==
    (cin.kind = "bytes" /\ Len(cin.bytes) % 3 = 0 /\ Len(cin.bytes) > 0 /\ cpc = "done")
        => /\ ~cout.oob
           /\ cout.decoded.threw = ""
           /\ cout.decoded.written = cin.bytes

\* what a call gives when it runs alone on its own arguments, random bytes
\* and clock reading
OwnOutcome(t) ==
    LET b == GenerateKeyBegin(args[t], env[t].rng, env[t].systemTime, 0, 0, ndebug)
    IN  GenerateKeyEnd(args[t], b.keyBytes, env[t].systemTime.wYear,
                       env[t].systemTime.wMonth, ndebug)

\* C7: calls that run concurrently share no mutable data: the year and the
\* month a call reads after gmtime are those of its own clock reading, and
\* its result and output are those of the call running alone.
C7_OwnClockOnly ==
    \A t \in Threads :
        /\ pc[t] = "compose"
              => /\ year[t] = env[t].systemTime.wYear
                 /\ month[t] = env[t].systemTime.wMonth
        /\ (Returned(t) /\ env[t].rng.ok /\ StrLen(args[t].providerData) > 0)
              => /\ status[t] = OwnOutcome(t).status
                 /\ outWrites[t] = OwnOutcome(t).outWrites

\* C8: the last three bytes of a generated key are the least significant
\* three bytes, little endian, of the IEEE CRC-32 of the bytes before them.
C8_ChecksumIsCrc32 ==
    \A t \in Threads :
        Succeeded(t)
            => LET L == Len(keyBytes[t])
               IN  SubSeq(keyBytes[t], L - 2, L)
                     = LowThreeBytes(Crc32Ieee(SubSeq(keyBytes[t], 1, L - 3)))

\* the layout of the key of a call with arguments a and clock reading st
FieldLayout(kb, a, st) ==
    LET S == SecretSize(a)
        P == ProviderSize(a)
    IN  /\ SubSeq(kb, S + 1, S + P) = Decoded(a.providerData.chars)
        /\ SubSeq(kb, S + P + 1, S + P + 3) = << 37, 4, 9 >>
        /\ SubSeq(kb, S + P + 4, S + P + 6)
             = Decoded(<< a.allocatorCode.chars[1], a.allocatorCode.chars[2],
                          Base64UrlChars[st.wYear - 2024 + 1],
                          Base64UrlChars[st.wMonth - 1 + 1] >>)
        /\ SubSeq(kb, S + P + 7, S + P + 9) = Decoded(a.providerSignature.chars)

\* C9: in the key of every successful call whose clock reads a year in
\* range, [S, S+P) is the decoded provider data, [S+P, S+P+3) is 25 04 09,
\* [S+P+3, S+P+6) decodes allocator[0], allocator[1], alphabet[year-2024],
\* alphabet[month-1] of that clock reading, [S+P+6, S+P+9) is the decoded
\* provider signature.
C9_FieldLayout ==
    \A t \in Threads :
        (Succeeded(t) /\ YearInRange(env[t].systemTime.wYear))
            => FieldLayout(keyBytes[t], args[t], env[t].systemTime)

\* C10: for arguments the validators accept, no assertion of GenerateKey
\* fails.
C10_NoAssertionFails ==
    \A t \in Threads :
        (pc[t] # "idle" /\ ~ArgumentsRejected(args[t])) => asserts[t] = { }

=============================================================================
